---- MODULE Spec2Model ----
(***************************************************************************)
(* Engagement ledger of the posts controller (likePost, unlikePost,        *)
(* createComment) over the Post, Like and Comment collections.  Every      *)
(* request is an async handler: each `await` on the storage layer is one   *)
(* atomic step, and steps of different requests interleave freely.         *)
(* The read side (getFeed, getPostById, getComments) and the router's      *)
(* middleware (requireToken, exceptRoles) each have a specification of     *)
(* their own over the same variables.                                      *)
(***************************************************************************)
EXTENDS Integers, FiniteSets, Sequences, TLC

\* ------------------------------------------------------------------ bounds
MaxRequests == 3            \* requests issued in one behaviour
MaxInFlight == 2            \* requests whose handlers overlap

MaxFeedPosts == 4    \* posts in the store that getFeed reads
MaxLimit == 3        \* largest limit a client passes in the query
MaxPages == 3        \* consecutive pages a client requests
MaxItems == 2        \* longest ingredients or steps list of a stored Meal
MaxEdits == 2        \* createPost and updatePost requests made
MaxCount == 1        \* largest likedCount or commentCount of a post stored at the start

\* ------------------------------------------------------------------ inputs
StoredPosts == {"p1", "p2"}                 \* _ids of the Post documents
PostIdInputs == StoredPosts \cup {"p0"}     \* req.params.id; "p0" matches no post
Users == {"u1", "u2"}                       \* req.user._id of authenticated callers
Slots == 1..MaxInFlight
AbsentCommentId == MaxRequests + 1          \* a well-formed _id of no comment

VARIABLES posts, likes, comments, req, started, last,
          feed,     \* a client paging through getFeed
          view,     \* a getPostById request
          http,     \* a request on its way through the router's middleware
          listing,  \* a getComments request
          parse,    \* a request inside parseToken
          authoring \* the posts that createPost and updatePost write

ledger == <<posts, likes, comments, req, started, last>>
vars == <<posts, likes, comments, req, started, last, feed, view, http, listing,
          parse, authoring>>

\* ------------------------------------------------------------------ documents
\* The counters of a Post document (PostSchema: Number, default 0, no minimum).
PostDoc(lc, cc) == [likedCount |-> lc, commentCount |-> cc]

\* new Like({postId, likedBy})
LikeDoc(id, pid, uid) == [id |-> id, postId |-> pid, likedBy |-> uid]

\* new Comment({...body, repliedTo, postId, userId, replyCount: 0});
\* repliedTo is {} when undefined and {c} when it is the id c.
CommentDoc(id, pid, uid, rep) ==
    [id |-> id, postId |-> pid, userId |-> uid, repliedTo |-> rep, replyCount |-> 0]

\* A request slot with no handler running.
IdleReq ==
    [pc |-> "idle", op |-> "none", rid |-> 0, postId |-> "p0", user |-> "u1",
     repliedTo |-> {}, doc |-> PostDoc(0, 0), dirty |-> {}, like |-> {},
     rply |-> {}]

\* No response sent yet.
NoResponse ==
    [op |-> "none", rid |-> 0, postId |-> "p0", user |-> "u1", repliedTo |-> {},
     code |-> 0]

InFlight(r) == req[r].pc # "idle"
NoneInFlight == \A r \in Slots : ~InFlight(r)

\* No getFeed, getPostById or routed request under way.
NoFeed == [posts |-> {}, viewer |-> "anon", limit |-> {}, skip |-> {}, first |-> {},
           cursor |-> "truncate", pages |-> <<>>]
NoView == [pc |-> "idle", post |-> {}, meals |-> {}, id |-> "p0", viewer |-> "anon",
           response |-> [code |-> 0, body |-> {}]]
NoHttp == [pc |-> "idle", route |-> "getFeed", at |-> 1, status |-> 0, ran |-> "none",
           user |-> [kind |-> "undefined", id |-> "u1", role |-> "none"]]
NoParse == [pc |-> "idle", n |-> 0, header |-> [kind |-> "absent", userId |-> "u1"],
            token |-> "undefined", nexts |-> 0, responses |-> 0, message |-> "none",
            user |-> [kind |-> "undefined", id |-> "u1", role |-> "none"]]
NoAuthoring == [docs |-> {}, n |-> 0,
                response |-> [op |-> "none", code |-> 0, caller |-> "u1", id |-> 0]]
NoListing == [postId |-> "p0", limit |-> {}, skip |-> {}, response |-> [code |-> 0, body |-> <<>>]]

\* ------------------------------------------------------------------ storage
\* Post.findById(id): the set holding the document, or {} for null.
PostFindById(pid) == IF pid \in StoredPosts THEN {posts[pid]} ELSE {}

\* Like.findOne({postId, likedBy}): the matching records (findOne returns one).
LikeFind(pid, uid) == {l \in likes : l.postId = pid /\ l.likedBy = uid}

\* Variant: the Like collection has no uniqueness constraint; every insert is stored.
LikeStoreAcceptsAll(pid, uid) == TRUE

\* The Like collection's uniqueness constraint on (postId, likedBy), as the data
\* model states it (the Like schema itself is not among the sources): an insert
\* is accepted only if no record for the pair is stored.
LikeStoreAccepts(pid, uid) == LikeFind(pid, uid) = {}

\* Comment.findById(id) for repliedTo = {} (undefined -> null) or {id}.
CommentFindById(rep) == {c \in comments : c.id \in rep}

\* Variant: save() writes the whole document as the handler holds it.
PostSaveWholeDocument(pid, doc, dirty) ==
    IF dirty = {} THEN posts ELSE [posts EXCEPT ![pid] = doc]

\* doc.save(): $set of the modified paths only, the other stored fields stay.
PostSave(pid, doc, dirty) ==
    [posts EXCEPT ![pid] =
        [f \in DOMAIN @ |-> IF f \in dirty THEN doc[f] ELSE @[f]]]

\* rplyComment.save() after replyCount++: $set replyCount on that _id.
CommentSetReplyCount(cid, n) ==
    {IF c.id = cid THEN [c EXCEPT !.replyCount = n] ELSE c : c \in comments}

\* ------------------------------------------------------------------ handlers
\* res.json(...) / res.status(code).json(...) / next(err): the response of request r.
Respond(r, code) ==
    [op |-> req[r].op, rid |-> req[r].rid, postId |-> req[r].postId,
     user |-> req[r].user, repliedTo |-> req[r].repliedTo, code |-> code]

\* The handler of request r returns.
Return(r) == [req EXCEPT ![r] = IdleReq]

\* A request passes requireToken and its handler is entered (the handlers are
\* interchangeable: the lowest free slot is taken).
Start(r, op, pid, uid, rep) ==
    /\ ~InFlight(r)
    /\ \A q \in Slots : q < r => InFlight(q)
    /\ started < MaxRequests
    /\ started' = started + 1
    /\ req' = [req EXCEPT ![r] =
                 [IdleReq EXCEPT !.pc = "findPost", !.op = op, !.rid = started + 1,
                                 !.postId = pid, !.user = uid, !.repliedTo = rep]]
    /\ UNCHANGED <<feed, view, http, listing, parse, authoring>>
    /\ UNCHANGED <<posts, likes, comments, last>>

StartAny(r) ==
    \E op \in {"like", "unlike", "comment"}, pid \in PostIdInputs, uid \in Users :
      \E rep \in {{}} \cup {{c.id} : c \in comments} \cup {{AbsentCommentId}} :
        /\ (op # "comment" => rep = {})
        /\ Start(r, op, pid, uid, rep)

\* Variant: a missing post is not answered 404; the handler goes on with
\* post = null, throws, and next(err) answers 500.
FindPostThrows(r) ==
    /\ req[r].pc = "findPost"
    /\ LET found == PostFindById(req[r].postId) IN
         IF found = {}
         THEN /\ last' = Respond(r, 500)
              /\ req' = Return(r)
         ELSE /\ last' = last
              /\ \E d \in found :
                   req' = [req EXCEPT ![r].doc = d,
                             ![r].pc = IF req[r].op = "comment" THEN "findReply"
                                       ELSE "findLike"]
    /\ UNCHANGED <<feed, view, http, listing, parse, authoring>>
    /\ UNCHANGED <<posts, likes, comments, started>>

\* let post = await Post.findById(req.params.id); if(!post) 404
FindPost(r) ==
    /\ req[r].pc = "findPost"
    /\ LET found == PostFindById(req[r].postId) IN
         IF found = {}
         THEN /\ last' = Respond(r, 404)
              /\ req' = Return(r)
         ELSE /\ last' = last
              /\ \E d \in found :
                   req' = [req EXCEPT ![r].doc = d,
                             ![r].pc = IF req[r].op = "comment" THEN "findReply"
                                       ELSE "findLike"]
    /\ UNCHANGED <<feed, view, http, listing, parse, authoring>>
    /\ UNCHANGED <<posts, likes, comments, started>>

\* Variant: post.likedCount++ stands outside the if(!like) block.
LikeFindOneCountsAgain(r) ==
    /\ req[r].pc = "findLike" /\ req[r].op = "like"
    /\ LET found == LikeFind(req[r].postId, req[r].user) IN
         IF found = {}
         THEN req' = [req EXCEPT ![r].pc = "saveLike"]
         ELSE \E l \in found :
                req' = [req EXCEPT ![r].like = {l.id},
                          ![r].doc.likedCount = @ + 1,
                          ![r].dirty = @ \cup {"likedCount"},
                          ![r].pc = "savePost"]
    /\ UNCHANGED <<feed, view, http, listing, parse, authoring>>
    /\ UNCHANGED <<posts, likes, comments, started, last>>

\* likePost: let like = await Like.findOne(...); if(!like) ...
LikeFindOne(r) ==
    /\ req[r].pc = "findLike" /\ req[r].op = "like"
    /\ LET found == LikeFind(req[r].postId, req[r].user) IN
         IF found = {}
         THEN req' = [req EXCEPT ![r].pc = "saveLike"]
         ELSE \E l \in found : req' = [req EXCEPT ![r].like = {l.id}, ![r].pc = "savePost"]
    /\ UNCHANGED <<feed, view, http, listing, parse, authoring>>
    /\ UNCHANGED <<posts, likes, comments, started, last>>

\* likePost: await like.save(); post.likedCount++  (a rejected insert throws: next(err))
LikeSave(r) ==
    /\ req[r].pc = "saveLike"
    /\ IF LikeStoreAccepts(req[r].postId, req[r].user)
       THEN /\ likes' = likes \cup {LikeDoc(req[r].rid, req[r].postId, req[r].user)}
            /\ req' = [req EXCEPT ![r].like = {req[r].rid},
                          ![r].doc.likedCount = @ + 1,
                          ![r].dirty = @ \cup {"likedCount"},
                          ![r].pc = "savePost"]
            /\ last' = last
       ELSE /\ likes' = likes
            /\ req' = Return(r)
            /\ last' = Respond(r, 500)
    /\ UNCHANGED <<feed, view, http, listing, parse, authoring>>
    /\ UNCHANGED <<posts, comments, started>>

\* Variant: post.likedCount-- stands outside the if(like) block.
UnlikeFindOneAlwaysCounts(r) ==
    /\ req[r].pc = "findLike" /\ req[r].op = "unlike"
    /\ LET found == LikeFind(req[r].postId, req[r].user) IN
         IF found = {}
         THEN req' = [req EXCEPT ![r].doc.likedCount = @ - 1,
                        ![r].dirty = @ \cup {"likedCount"},
                        ![r].pc = "savePost"]
         ELSE \E l \in found : req' = [req EXCEPT ![r].like = {l.id}, ![r].pc = "deleteLike"]
    /\ UNCHANGED <<feed, view, http, listing, parse, authoring>>
    /\ UNCHANGED <<posts, likes, comments, started, last>>

\* unlikePost: let like = await Like.findOne(...); if(like) ...
UnlikeFindOne(r) ==
    /\ req[r].pc = "findLike" /\ req[r].op = "unlike"
    /\ LET found == LikeFind(req[r].postId, req[r].user) IN
         IF found = {}
         THEN req' = [req EXCEPT ![r].pc = "savePost"]
         ELSE \E l \in found : req' = [req EXCEPT ![r].like = {l.id}, ![r].pc = "deleteLike"]
    /\ UNCHANGED <<feed, view, http, listing, parse, authoring>>
    /\ UNCHANGED <<posts, likes, comments, started, last>>

\* Variant: the Like is deleted but post.likedCount-- is missing.
UnlikeDeleteKeepsCount(r) ==
    /\ req[r].pc = "deleteLike"
    /\ likes' = {l \in likes : l.id \notin req[r].like}
    /\ req' = [req EXCEPT ![r].pc = "savePost"]
    /\ UNCHANGED <<feed, view, http, listing, parse, authoring>>
    /\ UNCHANGED <<posts, comments, started, last>>

\* unlikePost: await Like.deleteOne({_id: like._id}); post.likedCount--
UnlikeDelete(r) ==
    /\ req[r].pc = "deleteLike"
    /\ likes' = {l \in likes : l.id \notin req[r].like}
    /\ req' = [req EXCEPT ![r].doc.likedCount = @ - 1,
                          ![r].dirty = @ \cup {"likedCount"},
                          ![r].pc = "savePost"]
    /\ UNCHANGED <<feed, view, http, listing, parse, authoring>>
    /\ UNCHANGED <<posts, comments, started, last>>

\* Variant: the counter is updated in storage by an atomic increment
\* ($inc likedCount by +1 / -1) instead of a $set of the value computed locally.
LikeSavePostAtomic(r) ==
    /\ req[r].pc = "savePost" /\ req[r].op \in {"like", "unlike"}
    /\ posts' = IF req[r].dirty = {} THEN posts
                ELSE [posts EXCEPT ![req[r].postId].likedCount =
                        @ + (IF req[r].op = "like" THEN 1 ELSE -1)]
    /\ last' = Respond(r, 200)
    /\ req' = Return(r)
    /\ UNCHANGED <<feed, view, http, listing, parse, authoring>>
    /\ UNCHANGED <<likes, comments, started>>

\* likePost / unlikePost: await post.save(); res.json(post)
LikeSavePost(r) ==
    /\ req[r].pc = "savePost" /\ req[r].op \in {"like", "unlike"}
    /\ posts' = PostSave(req[r].postId, req[r].doc, req[r].dirty)
    /\ last' = Respond(r, 200)
    /\ req' = Return(r)
    /\ UNCHANGED <<feed, view, http, listing, parse, authoring>>
    /\ UNCHANGED <<likes, comments, started>>

\* Variant: only the existence of the replied-to comment is checked, not its post.
CommentFindReplyAnyPost(r) ==
    /\ req[r].pc = "findReply"
    /\ LET found == CommentFindById(req[r].repliedTo) IN
         IF req[r].repliedTo # {} /\ found = {}
         THEN /\ last' = Respond(r, 404)
              /\ req' = Return(r)
         ELSE /\ last' = last
              /\ req' = [req EXCEPT ![r].rply = found, ![r].pc = "saveComment"]
    /\ UNCHANGED <<feed, view, http, listing, parse, authoring>>
    /\ UNCHANGED <<posts, likes, comments, started>>

\* Variant: the replied-to comment is looked up but never checked.
CommentFindReplyUnchecked(r) ==
    /\ req[r].pc = "findReply"
    /\ req' = [req EXCEPT ![r].rply = CommentFindById(req[r].repliedTo),
                          ![r].pc = "saveComment"]
    /\ UNCHANGED <<feed, view, http, listing, parse, authoring>>
    /\ UNCHANGED <<posts, likes, comments, started, last>>

\* createComment: let rplyComment = await Comment.findById(repliedTo);
\* 404 if repliedTo is given and the comment is absent or belongs to another post.
CommentFindReply(r) ==
    /\ req[r].pc = "findReply"
    /\ LET found == CommentFindById(req[r].repliedTo) IN
         IF req[r].repliedTo # {} /\ (found = {} \/ \E c \in found : c.postId # req[r].postId)
         THEN /\ last' = Respond(r, 404)
              /\ req' = Return(r)
         ELSE /\ last' = last
              /\ req' = [req EXCEPT ![r].rply = found, ![r].pc = "saveComment"]
    /\ UNCHANGED <<feed, view, http, listing, parse, authoring>>
    /\ UNCHANGED <<posts, likes, comments, started>>

\* Variant: post.commentCount++ only for a top-level comment.
CommentSaveCountsTopLevel(r) ==
    /\ req[r].pc = "saveComment"
    /\ comments' = comments \cup
         {CommentDoc(req[r].rid, req[r].postId, req[r].user, req[r].repliedTo)}
    /\ req' = IF req[r].repliedTo = {}
              THEN [req EXCEPT ![r].doc.commentCount = @ + 1,
                               ![r].dirty = @ \cup {"commentCount"},
                               ![r].pc = "savePost"]
              ELSE [req EXCEPT ![r].pc = "savePost"]
    /\ UNCHANGED <<feed, view, http, listing, parse, authoring>>
    /\ UNCHANGED <<posts, likes, started, last>>

\* createComment: await comment.save(); post.commentCount++
CommentSave(r) ==
    /\ req[r].pc = "saveComment"
    /\ comments' = comments \cup
         {CommentDoc(req[r].rid, req[r].postId, req[r].user, req[r].repliedTo)}
    /\ req' = [req EXCEPT ![r].doc.commentCount = @ + 1,
                          ![r].dirty = @ \cup {"commentCount"},
                          ![r].pc = "savePost"]
    /\ UNCHANGED <<feed, view, http, listing, parse, authoring>>
    /\ UNCHANGED <<posts, likes, started, last>>

\* Variant that returns right after the response, without the reply bookkeeping.
CommentSavePostForgetsReply(r) ==
    /\ req[r].pc = "savePost" /\ req[r].op = "comment"
    /\ posts' = PostSave(req[r].postId, req[r].doc, req[r].dirty)
    /\ last' = Respond(r, 200)
    /\ req' = Return(r)
    /\ UNCHANGED <<feed, view, http, listing, parse, authoring>>
    /\ UNCHANGED <<likes, comments, started>>

\* createComment: await post.save(); res.json(comment); if(repliedTo) the handler
\* goes on to rplyComment.replyCount++ and its save, after the response.
CommentSavePost(r) ==
    /\ req[r].pc = "savePost" /\ req[r].op = "comment"
    /\ posts' = PostSave(req[r].postId, req[r].doc, req[r].dirty)
    /\ last' = Respond(r, 200)
    /\ req' = IF req[r].repliedTo # {}
              THEN [req EXCEPT ![r].pc = "saveReply"]
              ELSE Return(r)
    /\ UNCHANGED <<feed, view, http, listing, parse, authoring>>
    /\ UNCHANGED <<likes, comments, started>>

\* createComment: rplyComment.replyCount++; await rplyComment.save()
CommentSaveReply(r) ==
    /\ req[r].pc = "saveReply"
    /\ \E c \in req[r].rply :
         comments' = CommentSetReplyCount(c.id, c.replyCount + 1)
    /\ req' = Return(r)
    /\ UNCHANGED <<feed, view, http, listing, parse, authoring>>
    /\ UNCHANGED <<posts, likes, started, last>>

\* ------------------------------------------------------------------ system
\* Posts as createPost stores them (likedCount = 0, commentCount = 0); no Like
\* and no Comment yet.
Init ==
    /\ posts = [p \in StoredPosts |-> PostDoc(0, 0)]
    /\ likes = {}
    /\ comments = {}
    /\ req = [r \in Slots |-> IdleReq]
    /\ started = 0
    /\ last = NoResponse
    /\ feed = NoFeed
    /\ view = NoView
    /\ http = NoHttp
    /\ listing = NoListing
    /\ parse = NoParse
    /\ authoring = NoAuthoring

Step(r) ==
    \/ FindPost(r)
    \/ LikeFindOne(r)
    \/ LikeSave(r)
    \/ UnlikeFindOne(r)
    \/ UnlikeDelete(r)
    \/ LikeSavePost(r)
    \/ CommentFindReply(r)
    \/ CommentSave(r)
    \/ CommentSavePost(r)
    \/ CommentSaveReply(r)

\* Requests overlap: a new handler may start while others are suspended.
Next == \E r \in Slots : StartAny(r) \/ Step(r)

Spec == Init /\ [][Next]_vars

\* Each call runs to completion before the next one starts.
NextSeq == \E r \in Slots : (NoneInFlight /\ StartAny(r)) \/ Step(r)

SpecSeq == Init /\ [][NextSeq]_vars

\* Every awaited database call resolves and its handler is resumed.
Fairness == \A r \in Slots : WF_vars(Step(r))

SpecFair == Spec /\ Fairness

\* ------------------------------------------------------------------ feed

\* let limit = req.query.limit || 25
FeedDefaultLimit == 25
\* let skip = req.query.skip || 0
FeedDefaultSkip == 0

\* A query parameter is absent ({}) or carries a number ({n}).
QueryValue(q, default) == IF q = {} THEN default ELSE CHOOSE n \in q : TRUE

Tiers == {"null", "t1"}

\* The creator documents that populate('creator') resolves.
UserDoc(u) ==
    [id |-> u, handle |-> <<"handle", u>>, profilePicture |-> <<"picture", u>>,
     role |-> IF u = "u1" THEN "Creator" ELSE "Consumer"]

\* The stored posts getFeed reads: f gives tier and creator of the posts in
\* creation order; createPost stamps date = new Date(), so date grows with i.
Catalog(f) ==
    {[id |-> i, date |-> i, tier |-> f[i][1], creator |-> f[i][2]] : i \in DOMAIN f}

Catalogs ==
    UNION {{Catalog(f) : f \in [1..n -> Tiers \X Users]} : n \in 0..MaxFeedPosts}

\* Twice the JavaScript number n/2 + n%2, which is fractional for odd n.
JsHalfTwice(n) == n + 2 * (n % 2)

IsWhole(twice) == twice % 2 = 0

\* What the database does with a fractional limit or skip depends on the
\* server build: it keeps the integer part, or it rejects the command.
CursorModes == {"truncate", "reject"}

FindRejects(mode, limitTwice, skipTwice) ==
    mode = "reject" /\ (~IsWhole(limitTwice) \/ ~IsWhole(skipTwice))

\* sort({date: -1})
RECURSIVE SortByDateDesc(_)
SortByDateDesc(S) ==
    IF S = {} THEN <<>>
    ELSE LET newest == CHOOSE p \in S : \A q \in S : q.date <= p.date
         IN  <<newest>> \o SortByDateDesc(S \ {newest})

\* .limit(l).skip(s) on a cursor: skip first, then limit; limit 0 is no limit.
SkipLimit(seq, s, l) ==
    LET stop == IF l = 0 \/ s + l > Len(seq) THEN Len(seq) ELSE s + l
    IN  SubSeq(seq, s + 1, stop)

\* Post.find({tier: null}) or Post.find({tier: {$ne: null}}), sorted and paged
\* with the integer parts of the options.
PostFind(ps, gated, limitTwice, skipTwice) ==
    SkipLimit(SortByDateDesc({p \in ps : (p.tier # "null") = gated}),
              skipTwice \div 2, limitTwice \div 2)

\* The entry built from a populated post.
FeedEntry(post) ==
    LET user == UserDoc(post.creator)
    IN  [post |-> [post EXCEPT !.creator = user.id],
         locked |-> post.tier # "null",
         userHandle |-> user.handle,
         userProfilePicture |-> user.profilePicture,
         userRole |-> user.role]

FeedEntries(found) == [i \in 1..Len(found) |-> FeedEntry(found[i])]

FeedError == [code |-> 500, body |-> <<>>]

\* Variants of the two branches of getFeed: one that sorts the merged list, one
\* that unlocks every entry for a signed-in viewer.
FeedAnonymousMerged(ps, limit, skip, mode) ==
    LET l == JsHalfTwice(limit)
        s == JsHalfTwice(skip)
        found == PostFind(ps, FALSE, l, s) \o PostFind(ps, TRUE, l, s)
    IN  IF FindRejects(mode, l, s) THEN FeedError
        ELSE [code |-> 200,
              body |-> FeedEntries(SortByDateDesc({found[i] : i \in 1..Len(found)}))]

FeedAuthenticatedUnlocks(ps, limit, skip, mode) ==
    LET l == JsHalfTwice(limit)
        s == JsHalfTwice(skip)
        found == PostFind(ps, FALSE, l, s) \o PostFind(ps, TRUE, l, s)
    IN  IF FindRejects(mode, l, s) THEN FeedError
        ELSE [code |-> 200,
              body |-> [i \in 1..Len(found) |->
                          [FeedEntry(found[i]) EXCEPT !.locked = FALSE]]]

\* The branch of getFeed for a request without req.user.
FeedAnonymous(ps, limit, skip, mode) ==
    LET l == JsHalfTwice(limit)
        s == JsHalfTwice(skip)
    IN  IF FindRejects(mode, l, s) THEN FeedError
        ELSE [code |-> 200,
              body |-> FeedEntries(PostFind(ps, FALSE, l, s) \o PostFind(ps, TRUE, l, s))]

\* The branch of getFeed for a request with req.user.
FeedAuthenticated(ps, limit, skip, mode) ==
    LET l == JsHalfTwice(limit)
        s == JsHalfTwice(skip)
    IN  IF FindRejects(mode, l, s) THEN FeedError
        ELSE [code |-> 200,
              body |-> FeedEntries(PostFind(ps, FALSE, l, s) \o PostFind(ps, TRUE, l, s))]

FeedLimit == QueryValue(feed.limit, FeedDefaultLimit)
FeedSkip == QueryValue(feed.skip, FeedDefaultSkip)

\* One getFeed request; the client then asks for the next page, skip + limit.
GetFeed ==
    /\ Len(feed.pages) < MaxPages
    /\ LET page == IF feed.viewer = "anon"
                   THEN FeedAnonymous(feed.posts, FeedLimit, FeedSkip, feed.cursor)
                   ELSE FeedAuthenticated(feed.posts, FeedLimit, FeedSkip, feed.cursor)
       IN  feed' = [feed EXCEPT !.pages = Append(@, page),
                                !.skip = {FeedSkip + FeedLimit}]
    /\ UNCHANGED <<ledger, view, http, listing, parse, authoring>>

LimitInputs == {{}} \cup {{n} : n \in 1..MaxLimit}
SkipInputs == {{}} \cup {{n} : n \in 0..MaxLimit}

InitFeed ==
    /\ posts = [p \in StoredPosts |-> PostDoc(0, 0)]
    /\ likes = {}
    /\ comments = {}
    /\ req = [r \in Slots |-> IdleReq]
    /\ started = 0
    /\ last = NoResponse
    /\ view = NoView
    /\ http = NoHttp
    /\ listing = NoListing
    /\ parse = NoParse
    /\ authoring = NoAuthoring
    /\ \E ps \in Catalogs, v \in {"anon"} \cup Users, l \in LimitInputs,
          s \in SkipInputs, m \in CursorModes :
         feed = [posts |-> ps, viewer |-> v, limit |-> l, skip |-> s, first |-> s,
                 cursor |-> m, pages |-> <<>>]

NextFeed == GetFeed

SpecFeed == InitFeed /\ [][NextFeed]_vars

\* ------------------------------------------------------------------ getPostById

PostTypes == {"Normal", "Meal", "MealPlan", "Workout"}

\* A stored Post as getPostById sees it; meal is "null" or the id of a Meal.
ViewPostDoc(tier, type, meal) ==
    [id |-> "p1", tier |-> tier, type |-> type, meal |-> meal,
     title |-> "title", description |-> "description", media |-> <<"media">>,
     likedCount |-> 0, commentCount |-> 0]

\* A req.params.id that is no ObjectId: the query throws a CastError.
MalformedId == "bad"

ItemLists == UNION {[1..n -> {"item"}] : n \in 0..MaxItems}

MealDoc(ingredients, steps) ==
    [id |-> "m1", ingredients |-> ingredients, steps |-> steps]

\* populate('meal'): the referenced Meal, or null when the reference is null
\* or no such Meal is stored.
PopulateMeal(post, meals) ==
    [post EXCEPT !.meal = {m \in meals : m.id = post.meal}]

\* Variant that returns the populated post to everyone.
ViewResponseUnredacted(found, viewer) ==
    IF found = {} THEN [code |-> 404, body |-> {}]
    ELSE [code |-> 200, body |-> found]

\* The part of getPostById after the query: redaction and response.
ViewResponse(found, viewer) ==
    IF found = {} THEN [code |-> 404, body |-> {}]
    ELSE LET post == CHOOSE p \in found : TRUE
         IN  IF post.tier # "null" /\ viewer = "anon"
             THEN IF post.meal = {}
                  THEN [code |-> 500, body |-> {}]    \* post.meal.toObject() on null
                  ELSE [code |-> 200,
                        body |-> {[post EXCEPT !.meal =
                                    {[m EXCEPT !.ingredients = <<>>, !.steps = <<>>] :
                                       m \in post.meal}]}]
             ELSE [code |-> 200, body |-> found]

\* A request GET /:id arrives; Post.findById(...).populate(...) is awaited.
GetPostByIdCall ==
    /\ view.pc \in {"idle", "done"}
    /\ \E id \in PostIdInputs \cup {MalformedId}, v \in {"anon"} \cup Users :
         view' = [view EXCEPT !.pc = "find", !.id = id, !.viewer = v,
                              !.response = NoView.response]
    /\ UNCHANGED <<ledger, feed, http, listing, parse, authoring>>

\* The query resolves (or throws on a malformed id) and the handler answers.
GetPostByIdFind ==
    /\ view.pc = "find"
    /\ view' = [view EXCEPT
                  !.pc = "done",
                  !.response =
                     IF view.id = MalformedId
                     THEN [code |-> 500, body |-> {}]
                     ELSE ViewResponse({PopulateMeal(p, view.meals) :
                                          p \in {q \in view.post : q.id = view.id}},
                                       view.viewer)]
    /\ UNCHANGED <<ledger, feed, http, listing, parse, authoring>>

LedgerIdle ==
    /\ posts = [p \in StoredPosts |-> PostDoc(0, 0)]
    /\ likes = {}
    /\ comments = {}
    /\ req = [r \in Slots |-> IdleReq]
    /\ started = 0
    /\ last = NoResponse

InitView ==
    /\ LedgerIdle
    /\ feed = NoFeed
    /\ http = NoHttp
    /\ listing = NoListing
    /\ parse = NoParse
    /\ authoring = NoAuthoring
    /\ \E ps \in {{}} \cup {{ViewPostDoc(t, ty, m)} :
                              t \in Tiers, ty \in PostTypes, m \in {"null", "m1"}},
          ms \in {{}} \cup {{MealDoc(i, st)} : i \in ItemLists, st \in ItemLists} :
         view = [NoView EXCEPT !.post = ps, !.meals = ms]

NextView == GetPostByIdCall \/ GetPostByIdFind

SpecView == InitView /\ [][NextView]_vars

\* ------------------------------------------------------------------ getComments

\* let skip = req.query.skip || 0; let limit = req.query.limit || 25
CommentsDefaultSkip == 0
CommentsDefaultLimit == 25

\* The Comment collections that createComment calls, one after the other, leave
\* behind: comment i is on post f[i][1], written by f[i][2], and replies to the
\* earlier comment f[i][3] of the same post (0: to none).
ReplyTrees(n) ==
    {f \in [1..n -> StoredPosts \X Users \X (0..n)] :
       \A i \in 1..n : /\ f[i][3] < i
                       /\ f[i][3] # 0 => f[f[i][3]][1] = f[i][1]}

CommentsOfTree(f) ==
    {[CommentDoc(i, f[i][1], f[i][2], IF f[i][3] = 0 THEN {} ELSE {f[i][3]})
        EXCEPT !.replyCount = Cardinality({j \in DOMAIN f : f[j][3] = i})] :
       i \in DOMAIN f}

\* The documents of a find without sort, in insertion order.
RECURSIVE InInsertionOrder(_)
InInsertionOrder(S) ==
    IF S = {} THEN <<>>
    ELSE LET oldest == CHOOSE c \in S : \A d \in S : c.id <= d.id
         IN  <<oldest>> \o InInsertionOrder(S \ {oldest})

\* Variant of the query that leaves out the repliedTo condition.
CommentFindAnyLevel(pid, limit, skip) ==
    SkipLimit(InInsertionOrder({c \in comments : c.postId = pid}), skip, limit)

\* Comment.find({postId, repliedTo: {$eq: null}}).limit(limit).skip(skip)
CommentFindTopLevel(pid, limit, skip) ==
    SkipLimit(InInsertionOrder({c \in comments : c.postId = pid /\ c.repliedTo = {}}),
              skip, limit)

\* The entry built from a comment with userId populated.
CommentEntry(comment) ==
    LET user == UserDoc(comment.userId)
    IN  [comment |-> [comment EXCEPT !.userId = user.id],
         userHandle |-> user.handle,
         userProfilePicture |-> user.profilePicture,
         userRole |-> user.role]

\* One getComments request, answered.
GetComments ==
    /\ \E pid \in PostIdInputs, l \in LimitInputs, s \in SkipInputs :
         LET found == CommentFindTopLevel(pid, QueryValue(l, CommentsDefaultLimit),
                                          QueryValue(s, CommentsDefaultSkip))
         IN  listing' = [postId |-> pid, limit |-> l, skip |-> s,
                         response |->
                           [code |-> 200,
                            body |-> [i \in 1..Len(found) |-> CommentEntry(found[i])]]]
    /\ UNCHANGED <<ledger, feed, view, http, parse, authoring>>

InitComments ==
    /\ \E n \in 0..MaxRequests : \E f \in ReplyTrees(n) : comments = CommentsOfTree(f)
    /\ posts = [p \in StoredPosts |->
                 PostDoc(0, Cardinality({c \in comments : c.postId = p}))]
    /\ likes = {}
    /\ req = [r \in Slots |-> IdleReq]
    /\ started = Cardinality(comments)
    /\ last = NoResponse
    /\ feed = NoFeed
    /\ view = NoView
    /\ http = NoHttp
    /\ listing = NoListing
    /\ parse = NoParse
    /\ authoring = NoAuthoring

NextComments == GetComments

SpecComments == InitComments /\ [][NextComments]_vars

\* ------------------------------------------------------------------ router

\* The routes of the posts router, named by their handlers.
Routes ==
    {"getFeed", "createPost", "getLikedPosts", "getPostById", "updatePost",
     "likePost", "unlikePost", "createComment", "getComments", "getReplies"}

\* The middleware a route lists before its handler.
Chain(route) ==
    IF route = "createPost" THEN <<"requireToken", "exceptRoles">>
    ELSE IF route \in {"getLikedPosts", "updatePost", "likePost", "unlikePost",
                       "createComment"}
         THEN <<"requireToken">>
         ELSE <<>>

Roles == {"Consumer", "Creator"}

\* req.user as parseToken leaves it: never assigned (no token), null (the
\* token's user is no longer stored), or the stored user.
ReqUsers ==
    {[kind |-> "undefined", id |-> "u1", role |-> "none"],
     [kind |-> "null", id |-> "u1", role |-> "none"]}
    \cup {[kind |-> "user", id |-> u, role |-> ro] : u \in Users, ro \in Roles}

\* !req.user
NoReqUser(user) == user.kind \in {"undefined", "null"}

\* exceptRoles(['Consumer'])
ExceptedRoles == {"Consumer"}

Unauthorized == 401

\* A request reaches the router.
HttpArrive ==
    /\ http.pc \in {"idle", "handler", "done"}
    /\ \E route \in Routes, user \in ReqUsers :
         http' = [NoHttp EXCEPT !.pc = "chain", !.route = route, !.user = user]
    /\ UNCHANGED <<ledger, feed, view, listing, parse, authoring>>

AtMiddleware(name) ==
    /\ http.pc = "chain"
    /\ http.at <= Len(Chain(http.route))
    /\ Chain(http.route)[http.at] = name

\* Variant that only turns away requests whose req.user was never assigned.
RequireTokenPassesNull ==
    /\ AtMiddleware("requireToken")
    /\ http' = IF http.user.kind = "undefined"
               THEN [http EXCEPT !.pc = "done", !.status = Unauthorized]
               ELSE [http EXCEPT !.at = @ + 1]
    /\ UNCHANGED <<ledger, feed, view, listing, parse, authoring>>

\* requireToken: if(!req.user) 401 else next()
RequireToken ==
    /\ AtMiddleware("requireToken")
    /\ http' = IF NoReqUser(http.user)
               THEN [http EXCEPT !.pc = "done", !.status = Unauthorized]
               ELSE [http EXCEPT !.at = @ + 1]
    /\ UNCHANGED <<ledger, feed, view, listing, parse, authoring>>

\* exceptRoles(roles): if(!req.user) 401; else if(!roles.includes(role)) next();
\* else 401
ExceptRoles ==
    /\ AtMiddleware("exceptRoles")
    /\ http' = IF NoReqUser(http.user)
               THEN [http EXCEPT !.pc = "done", !.status = Unauthorized]
               ELSE IF http.user.role \notin ExceptedRoles
                    THEN [http EXCEPT !.at = @ + 1]
                    ELSE [http EXCEPT !.pc = "done", !.status = Unauthorized]
    /\ UNCHANGED <<ledger, feed, view, listing, parse, authoring>>

\* Every middleware of the route called next(): the handler is entered.
HandlerEnter ==
    /\ http.pc = "chain"
    /\ http.at > Len(Chain(http.route))
    /\ http' = [http EXCEPT !.pc = "handler", !.ran = http.route]
    /\ UNCHANGED <<ledger, feed, view, listing, parse, authoring>>

InitAuth ==
    /\ LedgerIdle
    /\ feed = NoFeed
    /\ view = NoView
    /\ listing = NoListing
    /\ parse = NoParse
    /\ authoring = NoAuthoring
    /\ http = NoHttp

NextAuth == HttpArrive \/ RequireToken \/ ExceptRoles \/ HandlerEnter

SpecAuth == InitAuth /\ [][NextAuth]_vars

\* ------------------------------------------------------------------ parseToken

\* The Authorization header of a request: absent; present but not of the form
\* "Bearer <token>"; "Bearer " followed by nothing; or "Bearer " followed by a
\* token that jwt.verify rejects, finds expired, or accepts with payload.userId.
\* "gone" is the id of a user that is no longer stored.
Headers ==
    {[kind |-> k, userId |-> "u1"] :
       k \in {"absent", "other", "emptyBearer", "invalid", "expired"}}
    \cup {[kind |-> "valid", userId |-> u] : u \in Users \cup {"gone"}}

\* User.findById(payload.userId)
UserFindById(id) ==
    IF id \in Users
    THEN [kind |-> "user", id |-> id, role |-> UserDoc(id).role]
    ELSE [kind |-> "null", id |-> "u1", role |-> "none"]

\* A request enters parseToken.
ParseArrive ==
    /\ parse.pc \in {"idle", "returned"}
    /\ parse.n < MaxRequests
    /\ \E h \in Headers :
         parse' = [NoParse EXCEPT !.pc = "entered", !.n = parse.n + 1, !.header = h]
    /\ UNCHANGED <<ledger, feed, view, http, listing, authoring>>

\* let token = header && header.match(/^Bearer (.*)$/): undefined without a
\* header, null without a match, else the match array.
ParseMatch ==
    /\ parse.pc = "entered"
    /\ parse' = [parse EXCEPT
                   !.pc = "matched",
                   !.token = IF parse.header.kind = "absent" THEN "undefined"
                             ELSE IF parse.header.kind = "other" THEN "null"
                             ELSE "array"]
    /\ UNCHANGED <<ledger, feed, view, http, listing, authoring>>

\* if (token && token[1]) { token = token[1]; try { jwt.verify(...) ...: a
\* rejected token is answered 401 in the catch block.
ParseVerify ==
    /\ parse.pc = "matched"
    /\ parse' =
         IF parse.token = "array" /\ parse.header.kind # "emptyBearer"
         THEN IF parse.header.kind = "valid"
              THEN [parse EXCEPT !.token = "string", !.pc = "findUser"]
              ELSE [parse EXCEPT !.token = "string", !.pc = "tail",
                                 !.responses = @ + 1,
                                 !.message = IF parse.header.kind = "expired"
                                             THEN "Token expired" ELSE "Unauthorized"]
         ELSE [parse EXCEPT !.pc = "tail"]
    /\ UNCHANGED <<ledger, feed, view, http, listing, authoring>>

\* req.user = await User.findById(payload.userId); next(); a rejected query is
\* answered 401 in the catch block.
ParseFindUser ==
    /\ parse.pc = "findUser"
    /\ \E resolves \in BOOLEAN :
         parse' = IF resolves
                  THEN [parse EXCEPT !.user = UserFindById(parse.header.userId),
                                     !.nexts = @ + 1, !.pc = "tail"]
                  ELSE [parse EXCEPT !.responses = @ + 1, !.message = "Unauthorized",
                                     !.pc = "tail"]
    /\ UNCHANGED <<ledger, feed, view, http, listing, authoring>>

\* if (!token) next(); and the function returns.
ParseTail ==
    /\ parse.pc = "tail"
    /\ parse' = IF parse.token \in {"undefined", "null"}
                THEN [parse EXCEPT !.nexts = @ + 1, !.pc = "returned"]
                ELSE [parse EXCEPT !.pc = "returned"]
    /\ UNCHANGED <<ledger, feed, view, http, listing, authoring>>

ParseStep == ParseMatch \/ ParseVerify \/ ParseFindUser \/ ParseTail

InitToken ==
    /\ LedgerIdle
    /\ feed = NoFeed
    /\ view = NoView
    /\ http = NoHttp
    /\ listing = NoListing
    /\ parse = NoParse
    /\ authoring = NoAuthoring

NextToken == ParseArrive \/ ParseStep

SpecToken == InitToken /\ [][NextToken]_vars

\* The synchronous code runs on and the awaited query settles.
SpecTokenFair == SpecToken /\ WF_vars(ParseStep)

\* ------------------------------------------------------------------ createPost, updatePost

\* A stored Post with the fields the two handlers deal with; title stands for
\* the required fields, tier for the optional ones with a schema default.
FullPostDoc(id, creator, date, lc, cc, title, tier) ==
    [id |-> id, creator |-> creator, date |-> date, likedCount |-> lc,
     commentCount |-> cc, title |-> title, tier |-> tier]

\* An _id, and values of date and of the counters, that only a request body
\* can bring in.
ForeignId == 0
ForeignDate == 99
ForeignCount == 7
Titles == {"a", "b"}

\* req.body: each field is absent ({}) or present ({v}).
Bodies ==
    {[id |-> i, creator |-> c, date |-> d, likedCount |-> lc, commentCount |-> cc,
      title |-> t, tier |-> ti] :
       i \in {{}} \cup {{ForeignId}} \cup {{doc.id} : doc \in authoring.docs},
       c \in {{}} \cup {{u} : u \in Users},
       d \in {{}, {ForeignDate}},
       lc \in {{}, {ForeignCount}},
       cc \in {{}, {ForeignCount}},
       t \in {{}} \cup {{x} : x \in Titles},
       ti \in {{}} \cup {{x} : x \in Tiers}}

\* The value of a body field, or the schema default when it is absent.
FieldOr(field, default) == IF field = {} THEN default ELSE CHOOSE v \in field : TRUE

\* new Post(body).toObject(): the body's fields over the schema defaults; the
\* result has no title key when the body has none.
NewPostObject(body, freshId, now) ==
    [id |-> FieldOr(body.id, freshId),
     creator |-> body.creator,
     date |-> FieldOr(body.date, now),
     likedCount |-> FieldOr(body.likedCount, 0),
     commentCount |-> FieldOr(body.commentCount, 0),
     title |-> body.title,
     tier |-> FieldOr(body.tier, "null")]

\* createPost: the counters, the creator and the date are assigned after the
\* document is built from the body; save() inserts it unless a required
\* field is missing or the _id is taken.
CreatePost ==
    /\ authoring.n < MaxEdits
    /\ \E caller \in Users, body \in Bodies :
         LET now == authoring.n + 1
             built == NewPostObject(body, now, now)
             post == FullPostDoc(built.id, caller, now, 0, 0,
                                 FieldOr(built.title, "none"), built.tier)
             saved == built.title # {} /\ \A d \in authoring.docs : d.id # post.id
         IN  authoring' =
               [docs |-> IF saved THEN authoring.docs \cup {post} ELSE authoring.docs,
                n |-> now,
                response |-> [op |-> "create", code |-> IF saved THEN 200 ELSE 500,
                              caller |-> caller, id |-> post.id]]
    /\ UNCHANGED <<ledger, feed, view, http, listing, parse>>

\* The update document of updatePost once creator, _id, date, commentCount
\* and likedCount are deleted: title if the body has one, and tier.
UpdateOf(built) == [title |-> built.title, tier |-> built.tier]

\* Variant that deletes creator, _id and date only: the counters of the
\* document built from the body stay in the update.
ApplyUpdateWithCounters(doc, built) ==
    [doc EXCEPT !.title = FieldOr(built.title, doc.title), !.tier = built.tier,
                !.likedCount = built.likedCount, !.commentCount = built.commentCount]

\* $set of the update document on the matched post.
ApplyUpdate(doc, built) ==
    [doc EXCEPT !.title = FieldOr(UpdateOf(built).title, doc.title),
                !.tier = UpdateOf(built).tier]

\* updatePost: Post.findOneAndUpdate({creator: req.user._id, _id: req.params.id},
\* newPost); no match is answered 500.
UpdatePost ==
    /\ authoring.n < MaxEdits
    /\ \E caller \in Users, body \in Bodies,
          id \in {ForeignId} \cup {d.id : d \in authoring.docs} :
         LET now == authoring.n + 1
             built == NewPostObject(body, now, now)
             matched == {d \in authoring.docs : d.creator = caller /\ d.id = id}
         IN  authoring' =
               [docs |-> {IF d \in matched THEN ApplyUpdate(d, built) ELSE d :
                            d \in authoring.docs},
                n |-> now,
                response |-> [op |-> "update", code |-> IF matched = {} THEN 500 ELSE 200,
                              caller |-> caller, id |-> id]]
    /\ UNCHANGED <<ledger, feed, view, http, listing, parse>>

\* The posts stored at the start: none, or one that was created earlier and
\* has been liked and commented on since.
InitAuthoring ==
    /\ LedgerIdle
    /\ feed = NoFeed
    /\ view = NoView
    /\ http = NoHttp
    /\ listing = NoListing
    /\ parse = NoParse
    /\ \E ds \in {{}} \cup {{FullPostDoc(ForeignId + 10, c, 0, lc, cc, t, ti)} :
                              c \in Users, lc \in 0..MaxCount, cc \in 0..MaxCount,
                              t \in Titles, ti \in Tiers} :
         authoring = [NoAuthoring EXCEPT !.docs = ds]

NextAuthoring == CreatePost \/ UpdatePost

SpecAuthoring == InitAuthoring /\ [][NextAuthoring]_vars

\* ------------------------------------------------------------------ properties
LikesOf(p) == {l \in likes : l.postId = p}
CommentsOf(p) == {c \in comments : c.postId = p}
RepliesTo(c) == {d \in comments : d.repliedTo = {c.id}}
\* The step is one of request r's handler.
StepOf(r) == req'[r] # req[r]
\* The step is the return of request r's handler.
Returns(r) == InFlight(r) /\ req'[r].pc = "idle"

\* C1: when like and unlike calls run one at a time, then between calls every
\* post's likedCount equals the number of Like records whose postId is the post.
C1_LikedCountMatchesLikes ==
    NoneInFlight => \A p \in StoredPosts : posts[p].likedCount = Cardinality(LikesOf(p))

\* Three calls were made, the last an unlike that removed a Like, and a Like of
\* the post remains.
C1_Witness ==
    /\ NoneInFlight /\ started = MaxRequests
    /\ last.op = "unlike" /\ last.code = 200 /\ last.postId \in StoredPosts
    /\ LikeFind(last.postId, last.user) = {}
    /\ \E p \in StoredPosts : posts[p].likedCount = 1 /\ Cardinality(LikesOf(p)) = 1
    /\ \A p \in StoredPosts : posts[p].commentCount = 0

C3_RepeatedLikeIsNoOp ==
    [][\A r \in Slots :
         ( /\ InFlight(r) /\ req[r].op = "like" /\ req[r].postId \in StoredPosts
           /\ \E l \in LikeFind(req[r].postId, req[r].user) : l.id # req[r].rid )
         => /\ posts' = posts /\ likes' = likes
            /\ Cardinality(LikeFind(req[r].postId, req[r].user)) = 1
            /\ (Returns(r) => last' = Respond(r, 200))]_vars

C3_Witness ==
    /\ last.op = "like" /\ last.code = 200 /\ last.postId \in StoredPosts
    /\ posts[last.postId].likedCount = 1
    /\ \E l \in LikeFind(last.postId, last.user) : l.id < last.rid

\* C4: with calls running one at a time, an unlike of an existing post by a
\* user with no Like for it changes neither the posts nor the Like records and
\* is answered 200.
C4_UnlikeWithoutLikeIsNoOp ==
    [][\A r \in Slots :
         ( /\ InFlight(r) /\ req[r].op = "unlike" /\ req[r].postId \in StoredPosts
           /\ req[r].like = {} /\ LikeFind(req[r].postId, req[r].user) = {} )
         => /\ posts' = posts /\ likes' = likes
            /\ (Returns(r) => last' = Respond(r, 200))]_vars

\* An unlike by a user who never liked anything was answered 200 on a post
\* another user likes.
C4_Witness ==
    /\ last.op = "unlike" /\ last.code = 200 /\ last.postId \in StoredPosts
    /\ started = 2 /\ NoneInFlight
    /\ posts[last.postId].likedCount = 1
    /\ \A l \in likes : l.likedBy # last.user

\* C5: in every reachable state every post's likedCount is >= 0.
C5_LikedCountNonNegative == \A p \in StoredPosts : posts[p].likedCount >= 0

\* C6: the counter update of like is a read-modify-write: the post.save of a
\* like that inserted its Like stores the count the call read plus one, whatever
\* count is stored by then, so of two overlapping likes that read the same count
\* the second save does not raise it.
C6_LikeSaveOverwrites ==
    [][\A r \in Slots :
         ( /\ StepOf(r) /\ req[r].pc = "savePost" /\ req[r].op = "like"
           /\ req[r].like = {req[r].rid} )
         => posts'[req[r].postId].likedCount = req[r].doc.likedCount]_vars

\* The lost update: the only two calls made were likes of one post, both
\* inserted their Like and returned, and likedCount grew from 0 to 1 only.
C6_Witness ==
    /\ started = 2 /\ NoneInFlight
    /\ last.op = "like" /\ last.code = 200 /\ last.postId \in StoredPosts
    /\ Cardinality(LikesOf(last.postId)) = 2
    /\ \E l1 \in likes, l2 \in likes : l1.likedBy # l2.likedBy
    /\ posts[last.postId].likedCount = 1

\* C7: whenever no addComment call is in progress, every top-level comment's
\* replyCount equals the number of Comment records whose repliedTo is it.
C7_ReplyCountMatchesReplies ==
    (\A r \in Slots : ~(InFlight(r) /\ req[r].op = "comment"))
    => \A c \in comments : c.repliedTo = {} => c.replyCount = Cardinality(RepliesTo(c))

\* C8 (as claimed): between addComment calls every post's commentCount equals
\* the number of its top-level Comment records.
C8_CommentCountIsTopLevel ==
    NoneInFlight =>
      \A p \in StoredPosts :
        posts[p].commentCount = Cardinality({c \in CommentsOf(p) : c.repliedTo = {}})

\* C8 (amended): with addComment calls running one at a time, between calls
\* every post's commentCount equals the number of all its Comment records,
\* replies included.
C8_CommentCountIsAllComments ==
    NoneInFlight =>
      \A p \in StoredPosts : posts[p].commentCount = Cardinality(CommentsOf(p))

\* A reply was created and its post counts two comments, one of them top-level.
C8_Witness ==
    /\ NoneInFlight
    /\ \E c \in comments :
         /\ c.repliedTo # {} /\ posts[c.postId].commentCount = 2
         /\ Cardinality({d \in CommentsOf(c.postId) : d.repliedTo = {}}) = 1

\* C9: the steps of an addComment on an existing post whose repliedTo is the id
\* of no comment, or of a comment of another post, change no Post, Like or
\* Comment record (no Comment created, no commentCount or replyCount changed),
\* and the call returns from the repliedTo check with 404.
C9_BadReplyTargetChangesNothing ==
    [][\A r \in Slots :
         ( /\ StepOf(r) /\ InFlight(r) /\ req[r].op = "comment"
           /\ req[r].postId \in StoredPosts /\ req[r].repliedTo # {}
           /\ \/ CommentFindById(req[r].repliedTo) = {}
              \/ \E c \in CommentFindById(req[r].repliedTo) : c.postId # req[r].postId )
         => /\ UNCHANGED <<posts, likes, comments>>
            /\ req'[r].pc \in {"findReply", "idle"}
            /\ (Returns(r) => last' = Respond(r, 404))]_vars

\* An addComment naming a comment of another post was answered 404.
C9_Witness ==
    /\ last.op = "comment" /\ last.code = 404 /\ last.postId \in StoredPosts
    /\ \E c \in CommentFindById(last.repliedTo) : c.postId # last.postId

\* C10: a like, unlike or addComment whose post id matches no stored post
\* returns 404 in its first step and changes no Post, Like or Comment record.
C10_MissingPostIs404 ==
    [][\A r \in Slots :
         (StepOf(r) /\ InFlight(r) /\ req[r].postId \notin StoredPosts)
         => /\ UNCHANGED <<posts, likes, comments>>
            /\ Returns(r) /\ last' = Respond(r, 404)]_vars

\* With a Like and a Comment stored, a call on a post id of no post was
\* answered 404.
C10_Witness ==
    /\ last.code = 404 /\ last.postId \notin StoredPosts
    /\ last.op \in {"like", "unlike", "comment"}
    /\ likes # {} /\ comments # {}

\* C11: in every reachable state, under every interleaving, every Comment whose
\* repliedTo is set references a stored Comment of the same post.
C11_RepliedToSamePost ==
    \A c \in comments :
      c.repliedTo # {} =>
        \E d \in comments : c.repliedTo = {d.id} /\ d.postId = c.postId

\* A reply is stored while an addComment naming a comment of another post was
\* turned away.
C11_Witness ==
    /\ \E c \in comments : c.repliedTo # {}
    /\ last.op = "comment" /\ last.code = 404 /\ last.postId \in StoredPosts
    /\ \E d \in CommentFindById(last.repliedTo) : d.postId # last.postId

\* The bodies of the pages a client has received, and the query of page i.
FeedBody(i) == feed.pages[i].body
PageSkip(i) == QueryValue(feed.first, FeedDefaultSkip) + (i - 1) * FeedLimit
IsGated(entry) == entry.post.tier # "null"

\* C12: for every limit >= 1 and skip >= 0, odd or even, the default limit 25
\* included, a getFeed response holds at most limit entries.
C12_AtMostLimitEntries ==
    \A i \in 1..Len(feed.pages) : Len(FeedBody(i)) <= FeedLimit

\* C13: in every getFeed result the free entries precede the gated entries, and
\* each of the two groups is in descending creation time; the two groups are
\* not merged into one chronological order.
C13_FreeThenGated ==
    \A i \in 1..Len(feed.pages) :
      \A j, k \in 1..Len(FeedBody(i)) :
        j < k =>
          LET a == FeedBody(i)[j]
              b == FeedBody(i)[k]
          IN  /\ ~(IsGated(a) /\ ~IsGated(b))
              /\ IsGated(a) = IsGated(b) => a.post.date > b.post.date

C13_Witness ==
    \E i \in 1..Len(feed.pages) :
      \E j, k, m \in 1..Len(FeedBody(i)) :
        /\ j < k /\ k < m
        /\ ~IsGated(FeedBody(i)[j]) /\ ~IsGated(FeedBody(i)[k])
        /\ IsGated(FeedBody(i)[m])
        /\ FeedBody(i)[m].post.date > FeedBody(i)[j].post.date

\* C14: for the same stored posts, limit and skip, the anonymous branch and the
\* authenticated branch of getFeed give the same response, and an entry is
\* locked exactly when its stored post has a tier.
C14_SameFeedForEveryViewer ==
    \A i \in 1..Len(feed.pages) :
      /\ feed.pages[i] = FeedAnonymous(feed.posts, FeedLimit, PageSkip(i), feed.cursor)
      /\ feed.pages[i] = FeedAuthenticated(feed.posts, FeedLimit, PageSkip(i), feed.cursor)
      /\ \A j \in 1..Len(FeedBody(i)) :
           LET e == FeedBody(i)[j]
           IN  /\ \E p \in feed.posts :
                    /\ p.id = e.post.id
                    /\ e.locked = (p.tier # "null")
                    /\ e.post.creator = p.creator
                    /\ e.userHandle = UserDoc(p.creator).handle
                    /\ e.userProfilePicture = UserDoc(p.creator).profilePicture
                    /\ e.userRole = UserDoc(p.creator).role

C14_Witness ==
    /\ feed.viewer \in Users
    /\ \E i \in 1..Len(feed.pages) :
         \E j, k \in 1..Len(FeedBody(i)) :
           FeedBody(i)[j].locked /\ ~FeedBody(i)[k].locked

\* C20: on unchanged data the pages requested with skip = 0, L, 2L, ... never
\* return the same post twice, and never leave out a post of a bucket that is
\* newer than a returned post of that bucket.
C20_PagesConsistent ==
    QueryValue(feed.first, FeedDefaultSkip) = 0 =>
      /\ \A i, j \in 1..Len(feed.pages) :
           \A a \in 1..Len(FeedBody(i)), b \in 1..Len(FeedBody(j)) :
             FeedBody(i)[a].post.id = FeedBody(j)[b].post.id => i = j /\ a = b
      /\ \A i \in 1..Len(feed.pages) :
           \A a \in 1..Len(FeedBody(i)) :
             \A p \in feed.posts :
               (p.tier # "null") = IsGated(FeedBody(i)[a]) /\ p.date > FeedBody(i)[a].post.date
                 => \E j \in 1..Len(feed.pages) :
                      \E b \in 1..Len(FeedBody(j)) : FeedBody(j)[b].post.id = p.id

\* The populated post a getPostById response carries, for the request answered.
Answered == view.pc = "done" /\ view.response.code = 200
StoredViewPost == CHOOSE p \in view.post : TRUE
HasMeal == \E m \in view.meals : m.id = StoredViewPost.meal
StoredMeal == CHOOSE m \in view.meals : m.id = StoredViewPost.meal
Hit == view.pc = "done" /\ view.post # {} /\ view.id = StoredViewPost.id

\* C15: getPostById on a stored gated Meal post with a meal returns it to an
\* anonymous viewer with the meal's ingredients and steps empty and every other
\* field intact; an authenticated viewer, and any viewer of a post without
\* tier, gets ingredients and steps as stored. No step changes a stored Meal
\* or Post.
C15_MealRedactedForAnonymous ==
    [][ /\ view'.meals = view.meals
        /\ view'.post = view.post
        /\ (Hit /\ StoredViewPost.type = "Meal" /\ HasMeal)' =>
             LET post == StoredViewPost'
                 meal == StoredMeal'
                 hide == post.tier # "null" /\ view'.viewer = "anon"
             IN  view'.response =
                   [code |-> 200,
                    body |-> {[post EXCEPT !.meal =
                                {[meal EXCEPT
                                    !.ingredients = IF hide THEN <<>> ELSE meal.ingredients,
                                    !.steps = IF hide THEN <<>> ELSE meal.steps]}]}]
      ]_vars

C15_Witness ==
    /\ Hit /\ Answered
    /\ StoredViewPost.type = "Meal" /\ StoredViewPost.tier # "null" /\ HasMeal
    /\ view.viewer = "anon"
    /\ StoredMeal.ingredients # <<>> /\ StoredMeal.steps # <<>>
    /\ \E b \in view.response.body :
         \E m \in b.meal : m.ingredients = <<>> /\ m.steps = <<>>

\* C16: getPostById on a stored gated post that is not of type Meal and has no
\* meal, called by an anonymous viewer, answers 200 with the post.
C16_GatedPostWithoutMealIsReturned ==
    ( /\ Hit
      /\ StoredViewPost.tier # "null"
      /\ StoredViewPost.type # "Meal" /\ StoredViewPost.meal = "null"
      /\ view.viewer = "anon" )
    => /\ view.response.code = 200
       /\ \E b \in view.response.body :
            /\ b.title = StoredViewPost.title
            /\ b.description = StoredViewPost.description
            /\ b.media = StoredViewPost.media
            /\ b.likedCount = StoredViewPost.likedCount
            /\ b.commentCount = StoredViewPost.commentCount

\* C17: after any sequence of addComment calls, a getComments response for a
\* post holds only comments of that post whose repliedTo is null, never a reply.
C17_GetCommentsReturnsTopLevelOnly ==
    \A i \in 1..Len(listing.response.body) :
      LET c == listing.response.body[i].comment
      IN  /\ c.postId = listing.postId
          /\ c.repliedTo = {}
          /\ \E d \in comments : d.id = c.id /\ d.postId = c.postId /\ d.repliedTo = {}

C17_Witness ==
    /\ Len(listing.response.body) >= 1
    /\ \E c \in comments : c.postId = listing.postId /\ c.repliedTo # {}
    /\ \E c \in comments : c.postId # listing.postId

\* The handler in slot r answers a reply with success in this step.
AnswersReply(r) ==
    /\ req[r].op = "comment" /\ req[r].pc = "savePost" /\ req[r].repliedTo # {}
    /\ req'[r] # req[r]

\* The handler of request k is past its response and has yet to save the parent.
ReplyPending(k) == \E r \in Slots : req[r].pc = "saveReply" /\ req[r].rid = k
Finished(k) == \A r \in Slots : ~(InFlight(r) /\ req[r].rid = k)
ReplyCountOf(cs, id) == {c.replyCount : c \in {d \in cs : d.id = id}}

\* C18: in createComment with a valid repliedTo, the Comment is stored and the
\* post's commentCount is saved when the response is produced; the parent's
\* replyCount is not saved before the response, but by the handler's last step
\* after it; and every such handler that has answered eventually takes that
\* step and finishes.
C18_ReplyCountAfterResponse ==
    /\ [][ \A r \in Slots :
             /\ AnswersReply(r) =>
                  /\ last' = Respond(r, 200)
                  /\ \E c \in comments : c.id = req[r].rid /\ c.repliedTo = req[r].repliedTo
                  /\ posts'[req[r].postId].commentCount = req[r].doc.commentCount
                  /\ comments' = comments
                  /\ req'[r] = [req[r] EXCEPT !.pc = "saveReply"]
             /\ (req[r].pc = "saveReply" /\ req'[r] # req[r]) =>
                  /\ req'[r] = IdleReq
                  /\ \E c \in req[r].rply :
                       /\ req[r].repliedTo = {c.id}
                       /\ ReplyCountOf(comments', c.id) = {c.replyCount + 1}
             /\ (req[r].pc # "saveReply" /\ req'[r] # req[r]) =>
                  \A c \in comments : ReplyCountOf(comments', c.id) = {c.replyCount}
         ]_vars
    /\ \A k \in 1..MaxRequests : ReplyPending(k) ~> Finished(k)

C18_Witness ==
    /\ NoneInFlight
    /\ last.op = "comment" /\ last.code = 200 /\ last.repliedTo # {}
    /\ \E c \in comments : last.repliedTo = {c.id} /\ c.replyCount >= 1

ProtectedRoutes ==
    {"createPost", "updatePost", "likePost", "unlikePost", "createComment",
     "getLikedPosts"}

\* C19: a request to createPost, updatePost, like, unlike, addComment or
\* getLikedPosts whose req.user is unset or null never enters its handler and,
\* once answered, is answered 401; createPost is entered only for a caller
\* whose role is not Consumer.
C19_NoIdentityNoHandler ==
    /\ (http.route \in ProtectedRoutes /\ NoReqUser(http.user)) =>
         /\ http.ran = "none"
         /\ http.pc # "handler"
         /\ http.pc = "done" => http.status = Unauthorized
    /\ http.ran = "createPost" =>
         http.user.kind = "user" /\ http.user.role # "Consumer"
    /\ http.ran # "none" => http.ran = http.route /\ http.status = 0

C19_Witness ==
    /\ http.route \in ProtectedRoutes
    /\ http.user.kind = "null"
    /\ http.pc = "done" /\ http.status = Unauthorized /\ http.ran = "none"

\* C21: whatever the Authorization header, a request that enters parseToken
\* is eventually through it with exactly one of: next() called once, one 401
\* sent; never both, never neither.
C21_ExactlyOneOutcome ==
    /\ [](parse.nexts + parse.responses <= 1)
    /\ \A k \in 1..MaxRequests :
         (parse.n = k /\ parse.pc = "entered")
           ~> (parse.n = k /\ parse.pc = "returned"
               /\ parse.nexts + parse.responses = 1)

\* C22: no step of a like or unlike handler changes a post's commentCount and
\* no step of a createComment handler changes a post's likedCount, under every
\* interleaving; a handler's save stores the counter it changed as it computed
\* it; and when one like and one comment on the same post were the only
\* requests and both have finished, the post shows likedCount 1 and
\* commentCount 1.
C22_CountersAreIndependent ==
    /\ [][ \A r \in Slots :
             StepOf(r) =>
               /\ req[r].op \in {"like", "unlike"} =>
                    \A p \in StoredPosts : posts'[p].commentCount = posts[p].commentCount
               /\ req[r].op = "comment" =>
                    \A p \in StoredPosts : posts'[p].likedCount = posts[p].likedCount
               /\ req[r].pc = "savePost" =>
                    \A f \in req[r].dirty : posts'[req[r].postId][f] = req[r].doc[f]
         ]_vars
    /\ [](\A p \in StoredPosts :
            ( /\ NoneInFlight /\ started = 2
              /\ Cardinality(LikesOf(p)) = 1
              /\ Cardinality(CommentsOf(p)) = 1 )
            => posts[p] = PostDoc(1, 1))

\* A like handler is about to save its post while the stored commentCount has
\* moved on from the value the handler read: a comment was counted in between.
C22_Witness ==
    \E r \in Slots :
      /\ req[r].op = "like" /\ req[r].pc = "savePost" /\ req[r].dirty = {"likedCount"}
      /\ posts[req[r].postId].commentCount = req[r].doc.commentCount + 1
      /\ Cardinality(CommentsOf(req[r].postId)) = 1

\* The request answered in this step, by handler.
Answers(op) == authoring'.n = authoring.n + 1 /\ authoring'.response.op = op
ProtectedFields == {"id", "creator", "date", "likedCount", "commentCount"}

\* C23: whatever the body, updatePost leaves creator, id, date, likedCount and
\* commentCount of every stored post as they were, and it changes nothing and
\* answers with a failure when no stored post has the given id and the caller
\* as creator; createPost either stores nothing and fails, or stores one new
\* post with likedCount 0, commentCount 0 and the caller as creator.
C23_ProtectedPostFields ==
    [][ /\ Answers("update") =>
             /\ Cardinality(authoring'.docs) = Cardinality(authoring.docs)
             /\ \A d \in authoring.docs :
                  \E e \in authoring'.docs : \A f \in ProtectedFields : e[f] = d[f]
             /\ (~\E d \in authoring.docs :
                     /\ d.id = authoring'.response.id
                     /\ d.creator = authoring'.response.caller)
                  => /\ authoring'.docs = authoring.docs
                     /\ authoring'.response.code = 500
        /\ Answers("create") =>
             IF authoring'.response.code = 200
             THEN \E e \in authoring'.docs \ authoring.docs :
                    /\ authoring'.docs = authoring.docs \cup {e}
                    /\ e.id = authoring'.response.id
                    /\ e.likedCount = 0 /\ e.commentCount = 0
                    /\ e.creator = authoring'.response.caller
             ELSE authoring'.docs = authoring.docs
      ]_vars

\* An update went through on a post that has likes and comments, after a post
\* was created.
C23_Witness ==
    /\ authoring.response.op = "update" /\ authoring.response.code = 200
    /\ \E d \in authoring.docs :
         /\ d.id = authoring.response.id
         /\ d.likedCount >= 1 /\ d.commentCount >= 1
    /\ \E d \in authoring.docs : d.id # authoring.response.id /\ d.likedCount = 0

====
